---- MODULE Spec2Model ----
(***************************************************************************)
(* A model of extract-summary.py: the transcript-to-summary pipeline of    *)
(* claude-bell.  Text is a sequence of one-character strings; a character  *)
(* outside ASCII is written by its code point ("U5931").  A decoded JSON   *)
(* value is a record tagged by its kind k.                                 *)
(***************************************************************************)
EXTENDS Integers, Sequences, FiniteSets, TLC

VARIABLES invocation, fsys, lines, pc, transcript_path, pos, messages,
          tools_used, files_modified, bash_commands, data, query, duration,
          result, stdout, exc

vars == <<invocation, fsys, lines, pc, transcript_path, pos, messages,
          tools_used, files_modified, bash_commands, data, query, duration,
          result, stdout, exc>>

(***************************************************************************)
(* Text                                                                    *)
(***************************************************************************)
Min(a, b) == IF a < b THEN a ELSE b

Max(a, b) == IF a > b THEN a ELSE b

NL == "\n"

Whitespace == {" ", NL, "\t", "\r"}

\* the lower-case letter of each upper-case letter
LowerOf ==
  [c \in {"A","B","C","D","E","F","G","H","I","J","K","L","M",
          "N","O","P","Q","R","S","T","U","V","W","X","Y","Z"} |->
     CASE c = "A" -> "a" [] c = "B" -> "b" [] c = "C" -> "c" [] c = "D" -> "d"
       [] c = "E" -> "e" [] c = "F" -> "f" [] c = "G" -> "g" [] c = "H" -> "h"
       [] c = "I" -> "i" [] c = "J" -> "j" [] c = "K" -> "k" [] c = "L" -> "l"
       [] c = "M" -> "m" [] c = "N" -> "n" [] c = "O" -> "o" [] c = "P" -> "p"
       [] c = "Q" -> "q" [] c = "R" -> "r" [] c = "S" -> "s" [] c = "T" -> "t"
       [] c = "U" -> "u" [] c = "V" -> "v" [] c = "W" -> "w" [] c = "X" -> "x"
       [] c = "Y" -> "y" [] c = "Z" -> "z"]

\* str.lower() on one character
LowerChar(c) == IF c \in DOMAIN LowerOf THEN LowerOf[c] ELSE c

\* str.lower()
Lower(s) == [i \in 1..Len(s) |-> LowerChar(s[i])]

\* s[:n]
Take(s, n) == SubSeq(s, 1, Min(n, Len(s)))

\* s[n:] with n counted from 0
Drop(s, n) == SubSeq(s, Min(n, Len(s)) + 1, Len(s))

\* s[-n:]
LastN(s, n) == SubSeq(s, Max(Len(s) - n, 0) + 1, Len(s))

\* str.strip()
Strip(s) ==
  LET keep == {i \in 1..Len(s) : s[i] \notin Whitespace}
  IN  IF keep = {} THEN <<>>
      ELSE SubSeq(s, CHOOSE i \in keep : \A j \in keep : i <= j,
                     CHOOSE i \in keep : \A j \in keep : j <= i)

\* positions (from 1) at which the literal p occurs in s
Occurrences(p, s) ==
  {i \in 1..(Len(s) - Len(p) + 1) : SubSeq(s, i, i + Len(p) - 1) = p}

\* the least element of a non-empty set of integers
Least(S) == CHOOSE i \in S : \A j \in S : i <= j

\* str.split('\n')[0]
FirstLine(s) ==
  LET nl == {i \in 1..Len(s) : s[i] = NL}
  IN  IF nl = {} THEN s ELSE SubSeq(s, 1, Least(nl) - 1)

RECURSIVE Join(_, _)
\* sep.join(texts)
Join(texts, sep) ==
  IF texts = <<>> THEN <<>>
  ELSE IF Len(texts) = 1 THEN texts[1]
  ELSE texts[1] \o sep \o Join(Tail(texts), sep)

RECURSIVE Flatten(_)
Flatten(texts) ==
  IF texts = <<>> THEN <<>> ELSE texts[1] \o Flatten(Tail(texts))

\* str.replace(old, new) for a one-character old
Replace(s, old, new) ==
  Flatten([i \in 1..Len(s) |-> IF s[i] = old THEN new ELSE <<s[i]>>])

DigitChars == <<"0","1","2","3","4","5","6","7","8","9">>

RECURSIVE NatText(_)
\* str(n) for n >= 0
NatText(n) ==
  IF n < 10 THEN <<DigitChars[n + 1]>>
  ELSE NatText(n \div 10) \o <<DigitChars[(n % 10) + 1]>>

\* str(n), f'{n}'
IntText(n) == IF n < 0 THEN <<"-">> \o NatText(0 - n) ELSE NatText(n)

IsDigit(c) == \E i \in DOMAIN DigitChars : DigitChars[i] = c

DigitVal(c) == (CHOOSE i \in DOMAIN DigitChars : DigitChars[i] = c) - 1

RECURSIVE DigitsVal(_)
\* int(s) for a text of decimal digits
DigitsVal(s) ==
  IF s = <<>> THEN 0
  ELSE DigitsVal(SubSeq(s, 1, Len(s) - 1)) * 10 + DigitVal(s[Len(s)])

AllDigits(s) == \A i \in 1..Len(s) : IsDigit(s[i])

(***************************************************************************)
(* Decoded JSON values (json.loads)                                        *)
(***************************************************************************)
\* dict.get(key) of a missing key
Absent == [k |-> "absent"]

JNull == [k |-> "null"]

JBool(b) == [k |-> "bool", b |-> b]

JNum(n) == [k |-> "num", n |-> n]

JStr(s) == [k |-> "str", s |-> s]

JList(items) == [k |-> "list", items |-> items]

\* a mapping: its <<key, value>> pairs in insertion order, the keys distinct
JDict(pairs) == [k |-> "dict", f |-> pairs]

EmptyText == <<>>

\* d.get(key, default)
GetOr(d, key, default) ==
  LET hits == {i \in 1..Len(d.f) : d.f[i][1] = key}
  IN  IF hits = {} THEN default ELSE d.f[Least(hits)][2]

\* d.get(key): None, written Absent, when the key is missing
Get(d, key) == GetOr(d, key, Absent)

\* bool(v)
Truthy(v) ==
  CASE v.k = "bool" -> v.b
    [] v.k = "num"  -> v.n # 0
    [] v.k = "str"  -> v.s # <<>>
    [] v.k = "list" -> v.items # <<>>
    [] v.k = "dict" -> v.f # <<>>
    [] OTHER        -> FALSE

IsStr(v, text) == v.k = "str" /\ v.s = text

\* repr() of one character inside a quoted string
ReprChar(c, quote) ==
  CASE c = "\\" -> <<"\\", "\\">>
    [] c = NL   -> <<"\\", "n">>
    [] c = "\t" -> <<"\\", "t">>
    [] c = "\r" -> <<"\\", "r">>
    [] c = quote -> <<"\\", c>>
    [] OTHER    -> <<c>>

\* repr(s) of a str
StrRepr(s) ==
  LET has(c) == \E i \in 1..Len(s) : s[i] = c
      quote  == IF has("'") /\ ~has("\"") THEN "\"" ELSE "'"
  IN  <<quote>> \o Flatten([i \in 1..Len(s) |-> ReprChar(s[i], quote)])
      \o <<quote>>

RECURSIVE Repr(_)
\* repr(v)
Repr(v) ==
  CASE v.k = "str"  -> StrRepr(v.s)
    [] v.k = "num"  -> IntText(v.n)
    [] v.k = "bool" -> IF v.b THEN <<"T","r","u","e">>
                       ELSE <<"F","a","l","s","e">>
    [] v.k = "list" ->
         <<"[">> \o Join([i \in 1..Len(v.items) |-> Repr(v.items[i])],
                         <<",", " ">>) \o <<"]">>
    [] v.k = "dict" ->
         <<"{">> \o Join([i \in 1..Len(v.f) |->
                            StrRepr(v.f[i][1]) \o <<":", " ">>
                            \o Repr(v.f[i][2])],
                         <<",", " ">>) \o <<"}">>
    [] OTHER        -> <<"N","o","n","e">>

\* str(v)
PyStr(v) == IF v.k = "str" THEN v.s ELSE Repr(v)

(***************************************************************************)
(* Field names and literals of the source                                  *)
(***************************************************************************)
K_type == <<"t","y","p","e">>

K_message == <<"m","e","s","s","a","g","e">>

K_content == <<"c","o","n","t","e","n","t">>

K_text == <<"t","e","x","t">>

K_timestamp == <<"t","i","m","e","s","t","a","m","p">>

K_tool_name == <<"t","o","o","l","_","n","a","m","e">>

K_tool_input == <<"t","o","o","l","_","i","n","p","u","t">>

K_tool_output == <<"t","o","o","l","_","o","u","t","p","u","t">>

K_isApiErrorMessage ==
  <<"i","s","A","p","i","E","r","r","o","r","M","e","s","s","a","g","e">>

K_error == <<"e","r","r","o","r">>

K_file_path == <<"f","i","l","e","_","p","a","t","h">>

K_path == <<"p","a","t","h">>

K_command == <<"c","o","m","m","a","n","d">>

K_transcript_path ==
  <<"t","r","a","n","s","c","r","i","p","t","_","p","a","t","h">>

T_user == <<"u","s","e","r">>

T_assistant == <<"a","s","s","i","s","t","a","n","t">>

T_tool_use == <<"t","o","o","l","_","u","s","e">>

T_tool_result == <<"t","o","o","l","_","r","e","s","u","l","t">>

T_text == <<"t","e","x","t">>

T_unknown == <<"u","n","k","n","o","w","n">>

T_Edit == <<"E","d","i","t">>

T_Write == <<"W","r","i","t","e">>

T_Bash == <<"B","a","s","h">>

T_Read == <<"R","e","a","d">>

\* A pattern is the literal parts of the regular expression that '.*'
\* separates; every pattern of the source has one part or two.
ERROR_PATTERNS ==
  << <<<<"A","P","I"," ","E","r","r","o","r">>>>,
     <<<<"E","r","r","o","r",":">>>>,
     <<<<"4","0","3">>>>,
     <<<<"4","0","1">>>>,
     <<<<"5","0","0">>>>,
     <<<<"f","a","i","l","e","d">>>>,
     <<<<"U5931","U8D25">>>>,
     <<<<"f","o","r","b","i","d","d","e","n">>>>,
     <<<<"u","n","a","u","t","h","o","r","i","z","e","d">>>>,
     <<<<"t","i","m","e","o","u","t">>>>,
     <<<<"c","o","n","n","e","c","t","i","o","n"," ",
         "r","e","f","u","s","e","d">>>>,
     <<<<"/","l","o","g","i","n">>>>,
     <<<<"p","e","r","m","i","s","s","i","o","n"," ",
         "d","e","n","i","e","d">>>> >>

ACTION_PATTERNS ==
  << <<<<"p","l","e","a","s","e"," ","r","u","n">>>>,
     <<<<"U8BF7","U8FD0","U884C">>>>,
     <<<<"U9700","U8981">>, <<"U786E","U8BA4">>>>,
     <<<<"w","a","i","t","i","n","g"," ","f","o","r">>>>,
     <<<<"a","p","p","r","o","v","e">>>> >>

\* re.search(pattern, content, re.IGNORECASE) is not None
re_search(pattern, content) ==
  LET text == Lower(content)
      a    == Lower(pattern[1])
  IN  IF Len(pattern) = 1 THEN Occurrences(a, text) # {}
      ELSE LET b == Lower(pattern[2])
           IN  \E i \in Occurrences(a, text), j \in Occurrences(b, text) :
                 /\ j >= i + Len(a)
                 /\ \A n \in (i + Len(a))..(j - 1) : text[n] # NL

\* any(re.search(p, content, re.IGNORECASE) for p in patterns)
MatchesAny(patterns, content) ==
  \E n \in DOMAIN patterns : re_search(patterns[n], content)

(***************************************************************************)
(* Results of calls that may raise                                         *)
(***************************************************************************)
Returns(v) == [exc |-> FALSE, val |-> v]

Raises == [exc |-> TRUE, val |-> <<>>]

(***************************************************************************)
(* extract_text_from_content                                               *)
(***************************************************************************)
\* the blocks of a list content whose text the loop appends to texts
TextBlocks(items) ==
  SelectSeq(items,
            LAMBDA item : /\ item.k = "dict"
                          /\ IsStr(Get(item, K_type), T_text)
                          /\ Truthy(GetOr(item, K_text, JStr(EmptyText))))

\* '\n'.join(texts) raises TypeError when an appended text is no str
extract_text_from_content(content) ==
  CASE content.k = "str" -> Returns(content.s)
    [] content.k = "list" ->
         LET texts == [i \in 1..Len(TextBlocks(content.items)) |->
                         Get(TextBlocks(content.items)[i], K_text)]
         IN  IF \E i \in 1..Len(texts) : texts[i].k # "str" THEN Raises
             ELSE Returns(Join([i \in 1..Len(texts) |-> texts[i].s], <<NL>>))
    [] OTHER -> Returns(EmptyText)

\* msg.get('message', {}): the nested message object
MessageObj(msg) == GetOr(msg, K_message, JDict(<<>>))

\* the text at message.content when message is a mapping, else ''
NestedText(msg) ==
  IF MessageObj(msg).k = "dict"
  THEN extract_text_from_content(
         GetOr(MessageObj(msg), K_content, JStr(EmptyText)))
  ELSE Returns(EmptyText)

\* the text at message.content, or else at the legacy content field
MessageText(msg) ==
  LET nested == NestedText(msg)
  IN  IF nested.exc THEN Raises
      ELSE IF nested.val # <<>> THEN nested
      ELSE extract_text_from_content(GetOr(msg, K_content, JStr(EmptyText)))

\* str(msg.get('tool_output', '') or msg.get('content', ''))
ToolResultText(msg) ==
  LET out == GetOr(msg, K_tool_output, JStr(EmptyText))
  IN  PyStr(IF Truthy(out) THEN out
            ELSE GetOr(msg, K_content, JStr(EmptyText)))

\* msg.get('type', '')
MsgType(msg) == GetOr(msg, K_type, JStr(EmptyText))

(***************************************************************************)
(* detect_status                                                           *)
(***************************************************************************)
RECURSIVE LastMeaningfulUser(_, _)
\* the backward search for last_meaningful_user_idx, from position i down;
\* positions count from 1, and the value 0 stands for the source's -1
LastMeaningfulUser(msgs, i) ==
  IF i = 0 THEN Returns(0)
  ELSE IF IsStr(Get(msgs[i], K_type), T_user)
          /\ MessageObj(msgs[i]).k = "dict"
       THEN LET content == NestedText(msgs[i])
            IN  IF content.exc THEN Raises
                ELSE IF content.val # <<>> /\ Len(Strip(content.val)) > 3
                     THEN Returns(i)
                     ELSE LastMeaningfulUser(msgs, i - 1)
       ELSE LastMeaningfulUser(msgs, i - 1)

\* the text the scan tests for one record
ScanText(msg) ==
  CASE IsStr(MsgType(msg), T_assistant)   -> MessageText(msg)
    [] IsStr(MsgType(msg), T_user)        -> MessageText(msg)
    [] IsStr(MsgType(msg), T_tool_result) -> Returns(ToolResultText(msg))
    [] OTHER                              -> Returns(EmptyText)

\* RecordVerdict with the two pattern groups tested in the other order
RecordVerdictActionFirst(msg) ==
  IF Truthy(Get(msg, K_isApiErrorMessage)) THEN Returns("error")
  ELSE IF Truthy(Get(msg, K_error)) THEN Returns("error")
  ELSE LET content == ScanText(msg)
       IN  IF content.exc THEN Raises
           ELSE IF content.val = <<>> THEN Returns("none")
           ELSE IF MatchesAny(ACTION_PATTERNS, content.val)
                THEN Returns("action_needed")
           ELSE IF MatchesAny(ERROR_PATTERNS, content.val)
                THEN Returns("error")
           ELSE Returns("none")

\* RecordVerdict without the tests of lines 86 and 90
RecordVerdictNoFlags(msg) ==
  LET content == ScanText(msg)
  IN  IF content.exc THEN Raises
      ELSE IF content.val = <<>> THEN Returns("none")
      ELSE IF MatchesAny(ERROR_PATTERNS, content.val) THEN Returns("error")
      ELSE IF MatchesAny(ACTION_PATTERNS, content.val)
           THEN Returns("action_needed")
      ELSE Returns("none")

\* lines 83 to 122 on one record of the scan: the status it decides, or
\* "none" when the scan goes on to the record before it
RecordVerdict(msg) ==
  IF Truthy(Get(msg, K_isApiErrorMessage)) THEN Returns("error")
  ELSE IF Truthy(Get(msg, K_error)) THEN Returns("error")
  ELSE LET content == ScanText(msg)
       IN  IF content.exc THEN Raises
           ELSE IF content.val = <<>> THEN Returns("none")
           ELSE IF MatchesAny(ERROR_PATTERNS, content.val)
                THEN Returns("error")
           ELSE IF MatchesAny(ACTION_PATTERNS, content.val)
                THEN Returns("action_needed")
           ELSE Returns("none")

RECURSIVE ScanWindow(_, _, _)
\* for msg in reversed(messages[start_idx:]), from position i down to start
ScanWindow(msgs, start, i) ==
  IF i < start THEN Returns("success")
  ELSE LET verdict == RecordVerdict(msgs[i])
       IN  IF verdict.exc THEN Raises
           ELSE IF verdict.val # "none" THEN verdict
           ELSE ScanWindow(msgs, start, i - 1)

\* start_idx = max(0, last_meaningful_user_idx), counted from 1
StartIdx(anchor) == Max(1, anchor)

detect_status(msgs) ==
  LET anchor == LastMeaningfulUser(msgs, Len(msgs))
  IN  IF anchor.exc THEN Raises
      ELSE ScanWindow(msgs, StartIdx(anchor.val), Len(msgs))

(***************************************************************************)
(* extract_user_query                                                      *)
(***************************************************************************)
skip_commands ==
  {<<"u","l","t","r","a","w","o","r","k">>,
   <<"c","o","n","t","i","n","u","e">>,
   <<"o","k">>, <<"y","e","s">>, <<"n","o">>, <<"y">>, <<"n">>,
   <<"U7EE7","U7EED">>, <<"U597D","U7684">>, <<"U662F">>, <<"U597D">>,
   <<"U53EF","U4EE5">>, <<"U786E","U8BA4">>, <<"U55EF">>, <<"U884C">>,
   <<"g","o">>, <<"n","e","x","t">>, <<"d","o","n","e">>,
   <<"t","h","a","n","k","s">>, <<"U8C22","U8C22">>, <<"U611F","U8C22">>}

\* the symbol-only contents of line 217
symbol_only ==
  {<<".",".",".">>, <<"U3002","U3002","U3002">>, <<"?","?","?">>,
   <<"UFF01","UFF01","UFF01">>}

Ellipsis == <<".",".",".">>

\* len(content_stripped) < MinQueryLen is skipped
MinQueryLen == 5

\* a first line longer than FirstLineMin is the summary
FirstLineMin == 5

\* the cut of extract_user_query
QueryCut == 80

\* s[:n] + ('...' if len(s) > n else '')
Truncate(s, n) == Take(s, n) \o (IF Len(s) > n THEN Ellipsis ELSE <<>>)

\* the filters of lines 202 to 218 on the text of one user record
PassesFilters(content) ==
  /\ content # <<>>
  /\ Lower(Strip(content)) \notin skip_commands
  /\ Len(Strip(content)) >= MinQueryLen
  /\ Strip(content) \notin symbol_only

\* QueryOf without the cut
QueryOfUncut(content) ==
  LET content_stripped == Strip(content)
      first_line       == Strip(FirstLine(content_stripped))
  IN  IF Len(first_line) > FirstLineMin THEN first_line
      ELSE content_stripped

\* lines 221 to 226: the summary of the text of the record that passed
QueryOf(content) ==
  LET content_stripped == Strip(content)
      first_line       == Strip(FirstLine(content_stripped))
  IN  IF Len(first_line) > FirstLineMin THEN Truncate(first_line, QueryCut)
      ELSE Truncate(content_stripped, QueryCut)

RECURSIVE QueryScanAnyType(_, _)
\* QueryScan without the test of the record type of line 187
QueryScanAnyType(msgs, i) ==
  IF i = 0 THEN Returns(EmptyText)
  ELSE LET content == MessageText(msgs[i])
       IN  IF content.exc THEN Raises
           ELSE IF PassesFilters(content.val)
                THEN Returns(QueryOf(content.val))
                ELSE QueryScanAnyType(msgs, i - 1)

RECURSIVE QueryScan(_, _)
\* for msg in reversed(messages), from position i down
QueryScan(msgs, i) ==
  IF i = 0 THEN Returns(EmptyText)
  ELSE IF IsStr(Get(msgs[i], K_type), T_user)
       THEN LET content == MessageText(msgs[i])
            IN  IF content.exc THEN Raises
                ELSE IF PassesFilters(content.val)
                     THEN Returns(QueryOf(content.val))
                     ELSE QueryScan(msgs, i - 1)
       ELSE QueryScan(msgs, i - 1)

extract_user_query(msgs) == QueryScan(msgs, Len(msgs))

(***************************************************************************)
(* datetime.fromisoformat, on the forms every Python 3.7+ reads alike:     *)
(* YYYY-MM-DD[*HH[:MM[:SS[.fff[fff]]]][(+|-)HH:MM[:SS]]]                   *)
(***************************************************************************)
ParseError == [ok |-> FALSE, aware |-> FALSE, secs |-> 0, micros |-> 0]

\* the number a text of digits stands for, or -1
FieldVal(s) == IF s # <<>> /\ AllDigits(s) THEN DigitsVal(s) ELSE 0 - 1

IsLeap(y) == (y % 4 = 0 /\ y % 100 # 0) \/ y % 400 = 0

DaysInMonth(y, m) ==
  IF m = 2 THEN (IF IsLeap(y) THEN 29 ELSE 28)
  ELSE IF m \in {4, 6, 9, 11} THEN 30 ELSE 31

\* days from 1970-01-01 to the date y-m-d of the proleptic calendar
DaysFromCivil(y, m, d) ==
  LET yy  == IF m <= 2 THEN y - 1 ELSE y
      era == yy \div 400
      yoe == yy - era * 400
      doy == (153 * (IF m > 2 THEN m - 3 ELSE m + 9) + 2) \div 5 + d - 1
      doe == yoe * 365 + yoe \div 4 - yoe \div 100 + doy
  IN  era * 146097 + doe - 719468

\* the sign characters that start a UTC offset
OffsetSigns == {"+", "-"}

\* the seconds of HH[:MM[:SS]], or -1 when the text is not of that form
ClockSeconds(s) ==
  LET hh == FieldVal(SubSeq(s, 1, Min(2, Len(s))))
      mm == IF Len(s) >= 5 THEN FieldVal(SubSeq(s, 4, 5)) ELSE 0
      ss == IF Len(s) >= 8 THEN FieldVal(SubSeq(s, 7, 8)) ELSE 0
  IN  IF /\ Len(s) \in {2, 5, 8}
         /\ (Len(s) >= 5 => s[3] = ":")
         /\ (Len(s) >= 8 => s[6] = ":")
         /\ hh \in 0..23 /\ mm \in 0..59 /\ ss \in 0..59
      THEN (hh * 60 + mm) * 60 + ss
      ELSE 0 - 1

\* the microseconds of a fraction of 3 or 6 digits, or -1
FractionMicros(s) ==
  IF Len(s) \in {3, 6} /\ AllDigits(s)
  THEN (IF Len(s) = 3 THEN DigitsVal(s) * 1000 ELSE DigitsVal(s))
  ELSE 0 - 1

\* datetime.fromisoformat(s): ok is FALSE where it raises ValueError; secs
\* are the seconds of the instant (of the wall clock when not aware)
\* since 1970-01-01
fromisoformat(s) ==
  LET y    == FieldVal(SubSeq(s, 1, Min(4, Len(s))))
      mo   == IF Len(s) >= 7 THEN FieldVal(SubSeq(s, 6, 7)) ELSE 0 - 1
      d    == IF Len(s) >= 10 THEN FieldVal(SubSeq(s, 9, 10)) ELSE 0 - 1
      dateOk == /\ Len(s) >= 10 /\ s[5] = "-" /\ s[8] = "-"
                /\ Len(SubSeq(s, 1, 4)) = 4 /\ y >= 1
                /\ mo \in 1..12
                /\ d >= 1 /\ d <= DaysInMonth(y, mo)
      rest == Drop(s, 11)
      sg   == {i \in 1..Len(rest) : rest[i] \in OffsetSigns}
      time == IF sg = {} THEN rest ELSE SubSeq(rest, 1, Least(sg) - 1)
      tz   == IF sg = {} THEN <<>> ELSE Drop(rest, Least(sg))
      dot  == {i \in 1..Len(time) : time[i] = "."}
      clk  == IF dot = {} THEN time ELSE SubSeq(time, 1, Least(dot) - 1)
      frac == IF dot = {} THEN <<>> ELSE Drop(time, Least(dot))
      cs   == ClockSeconds(clk)
      us   == IF dot = {} THEN 0 ELSE FractionMicros(frac)
      off  == ClockSeconds(tz)
      sign == IF sg # {} /\ rest[Least(sg)] = "-" THEN 0 - 1 ELSE 1
      day0 == DaysFromCivil(y, mo, d) * 86400
  IN  IF ~dateOk THEN ParseError
      ELSE IF Len(s) = 10
           THEN [ok |-> TRUE, aware |-> FALSE, secs |-> day0, micros |-> 0]
      ELSE IF Len(s) = 11 \/ cs < 0 \/ us < 0
              \/ (dot # {} /\ Len(clk) # 8)
              \/ (sg # {} /\ off < 0)
           THEN ParseError
      ELSE [ok |-> TRUE, aware |-> sg # {},
            secs |-> day0 + cs - sign * (IF sg = {} THEN 0 ELSE off),
            micros |-> us]

\* int((end - start).total_seconds()): the whole seconds, cut towards zero
WholeSeconds(start, end) ==
  LET ds    == end.secs - start.secs
      du    == end.micros - start.micros
      floor == IF du < 0 THEN ds - 1 ELSE ds
  IN  IF floor < 0 /\ du # 0 THEN floor + 1 ELSE floor

(***************************************************************************)
(* calculate_duration                                                      *)
(***************************************************************************)
\* a longer duration is taken for a data problem
MaxDuration == 3600

\* a shorter duration is not shown
MinDuration == 5

UtcOffset == <<"+","0","0",":","0","0">>

\* datetime.fromisoformat(ts.replace('Z', '+00:00'))
ParseTimestamp(ts) == fromisoformat(Replace(ts, "Z", UtcOffset))

\* FormatDuration with the seconds not reduced by the minutes
FormatDurationNoCarry(total_seconds) ==
  LET minutes == total_seconds \div 60
  IN  IF minutes > 0
      THEN IntText(minutes) \o <<"U5206">> \o IntText(total_seconds)
           \o <<"U79D2">>
      ELSE IntText(total_seconds) \o <<"U79D2">>

\* lines 264 to 270
FormatDuration(total_seconds) ==
  LET minutes == total_seconds \div 60
      seconds == total_seconds % 60
  IN  IF minutes > 0
      THEN IntText(minutes) \o <<"U5206">> \o IntText(seconds) \o <<"U79D2">>
      ELSE IntText(seconds) \o <<"U79D2">>

\* the position of the last record of type user, 0 when there is none
LastUserIdx(msgs) ==
  LET users == {i \in 1..Len(msgs) : IsStr(Get(msgs[i], K_type), T_user)}
  IN  IF users = {} THEN 0 ELSE CHOOSE i \in users : \A j \in users : j <= i

\* Every exception of the body is caught at line 271: a timestamp that is
\* no str (AttributeError), one that does not parse (ValueError), and the
\* difference of a naive and an aware datetime (TypeError).
calculate_duration(msgs) ==
  IF Len(msgs) < 2 THEN EmptyText
  ELSE IF LastUserIdx(msgs) = 0 THEN EmptyText
  ELSE
    LET first_ts == GetOr(msgs[LastUserIdx(msgs)], K_timestamp,
                          JStr(EmptyText))
        last_ts  == GetOr(msgs[Len(msgs)], K_timestamp, JStr(EmptyText))
    IN  IF ~(Truthy(first_ts) /\ Truthy(last_ts)) THEN EmptyText
        ELSE IF first_ts.k # "str" \/ last_ts.k # "str" THEN EmptyText
        ELSE
          LET start == ParseTimestamp(first_ts.s)
              end   == ParseTimestamp(last_ts.s)
          IN  IF ~start.ok \/ ~end.ok THEN EmptyText
              ELSE IF start.aware # end.aware THEN EmptyText
              ELSE
                LET total_seconds == WholeSeconds(start, end)
                IN  IF total_seconds < 0 \/ total_seconds > MaxDuration
                    THEN EmptyText
                    ELSE IF total_seconds < MinDuration THEN EmptyText
                    ELSE FormatDuration(total_seconds)

(***************************************************************************)
(* get_error_message                                                       *)
(***************************************************************************)
\* the records get_error_message looks at
ErrorWindow == 10

\* the cut of the captured error text
ErrorCut == 80

\* the alternatives of the capturing expression of line 298, each followed
\* by [^\n]*
CAPTURE_PATTERNS ==
  << <<"A","P","I"," ","E","r","r","o","r">>,
     <<"E","r","r","o","r",":">>,
     <<"4","0","3">>,
     <<"f","a","i","l","e","d">> >>

\* where re.search finds the leftmost match of some alternative
CaptureStarts(content) ==
  UNION {Occurrences(Lower(CAPTURE_PATTERNS[n]), Lower(content)) :
           n \in DOMAIN CAPTURE_PATTERNS}

\* match.group(1): from the leftmost match to the end of its line
CaptureGroup(content) ==
  LET i  == Least(CaptureStarts(content))
      nl == {j \in i..Len(content) : content[j] = NL}
  IN  SubSeq(content, i, IF nl = {} THEN Len(content) ELSE Least(nl) - 1)

\* the text get_error_message tests for one record
ErrorText(msg) ==
  CASE IsStr(MsgType(msg), T_assistant)   -> MessageText(msg)
    [] IsStr(MsgType(msg), T_tool_result) -> Returns(ToolResultText(msg))
    [] OTHER                              -> Returns(EmptyText)

RECURSIVE ErrorScan(_, _)
\* for msg in reversed(recent_messages), from position i down
ErrorScan(recent, i) ==
  IF i = 0 THEN Returns(EmptyText)
  ELSE LET content == ErrorText(recent[i])
       IN  IF content.exc THEN Raises
           ELSE IF content.val # <<>> /\ CaptureStarts(content.val) # {}
                THEN Returns(Take(CaptureGroup(content.val), ErrorCut))
                ELSE ErrorScan(recent, i - 1)

\* get_error_message over every record, not the last ErrorWindow
ErrorScanWholeTranscript(msgs) == ErrorScan(msgs, Len(msgs))

get_error_message(msgs) ==
  ErrorScan(LastN(msgs, ErrorWindow), Len(LastN(msgs, ErrorWindow)))

(***************************************************************************)
(* parse_transcript: the state of the loop over the lines of the file      *)
(***************************************************************************)
\* the exposed files_modified list holds at most FilesCap names
FilesCap == 5

\* the exposed bash_commands list holds at most CommandsCap commands
CommandsCap == 3

\* a collected command is cut to CommandCut characters
CommandCut == 50

RECURSIVE SplitOn(_, _)
\* s.split(c)
SplitOn(s, c) ==
  LET at == {i \in 1..Len(s) : s[i] = c}
  IN  IF at = {} THEN <<s>>
      ELSE <<SubSeq(s, 1, Least(at) - 1)>> \o SplitOn(Drop(s, Least(at)), c)

\* Path(file_path).name: the last component, '' when there is none
PathName(file_path) ==
  LET parts == SelectSeq(SplitOn(file_path, "/"),
                         LAMBDA part : part # <<>> /\ part # <<".">>)
  IN  IF parts = <<>> THEN <<>> ELSE parts[Len(parts)]

\* Counter and dict lookups: tools_used is the sequence of <<key, count>>
\* pairs in insertion order
CountOf(tools, key) ==
  LET hits == {i \in 1..Len(tools) : tools[i][1] = key}
  IN  IF hits = {} THEN 0 ELSE tools[Least(hits)][2]

\* Increment that stops counting at the cap of the exposed lists
IncrementCapped(tools, key) ==
  IF \E i \in 1..Len(tools) : tools[i][1] = key
  THEN [i \in 1..Len(tools) |->
          IF tools[i][1] = key
          THEN <<key, Min(tools[i][2] + 1, CommandsCap)>>
          ELSE tools[i]]
  ELSE Append(tools, <<key, 1>>)

\* tools_used[tool_name] += 1
Increment(tools, key) ==
  IF \E i \in 1..Len(tools) : tools[i][1] = key
  THEN [i \in 1..Len(tools) |->
          IF tools[i][1] = key THEN <<key, tools[i][2] + 1>> ELSE tools[i]]
  ELSE Append(tools, <<key, 1>>)

\* hash(v) raises TypeError for a list and for a dict
Hashable(v) == v.k \notin {"list", "dict"}

\* msg.get('tool_name', 'unknown')
ToolName(msg) == GetOr(msg, K_tool_name, JStr(T_unknown))

\* msg.get('tool_input', {})
ToolInput(msg) == GetOr(msg, K_tool_input, JDict(<<>>))

\* tool_input.get('file_path') or tool_input.get('path')
FilePath(tool_input) ==
  IF Truthy(Get(tool_input, K_file_path)) THEN Get(tool_input, K_file_path)
  ELSE Get(tool_input, K_path)

\* line 155: the record names a file that an Edit or a Write changes
NamesModifiedFile(msg) ==
  /\ ToolInput(msg).k = "dict"
  /\ Truthy(FilePath(ToolInput(msg)))
  /\ (IsStr(ToolName(msg), T_Edit) \/ IsStr(ToolName(msg), T_Write))

\* tool_input.get('command', '') of a Bash record, when it is truthy
NamesCommand(msg) ==
  /\ ToolInput(msg).k = "dict"
  /\ IsStr(ToolName(msg), T_Bash)
  /\ Truthy(GetOr(ToolInput(msg), K_command, JStr(EmptyText)))

\* cmd[:50]
CutCommand(cmd) ==
  IF cmd.k = "str" THEN JStr(Take(cmd.s, CommandCut))
  ELSE JList(Take(cmd.items, CommandCut))

\* what lines 141 to 162 raise on a decoded line, caught at line 166:
\* msg.get on a value that is no mapping, a tool name that cannot be a
\* Counter key, Path() of a value that is no str, a slice of a command
\* that is neither str nor list
RecordRaises(msg) ==
  IF msg.k # "dict" THEN TRUE
  ELSE /\ IsStr(MsgType(msg), T_tool_use)
       /\ \/ ~Hashable(ToolName(msg))
          \/ NamesModifiedFile(msg) /\ FilePath(ToolInput(msg)).k # "str"
          \/ /\ NamesCommand(msg)
             /\ Get(ToolInput(msg), K_command).k \notin {"str", "list"}

\* a line of the file: blank, text json.loads rejects, bytes that are not
\* UTF-8, or text that decodes to a value
BlankLine == [k |-> "blank"]

BadJson == [k |-> "badjson"]

BadUtf8 == [k |-> "badutf8"]

Decoded(v) == [k |-> "json", v |-> v]

(***************************************************************************)
(* generate_summary                                                        *)
(***************************************************************************)
\* the cut of the query in the notification
ShortCut == 60

TaskDone == <<"U4EFB","U52A1","U5B8C","U6210">>

TaskFailed == <<"U4EFB","U52A1","U6267","U884C","U51FA","U9519">>

NeedsUser == <<"U9700","U8981","U7528","U6237","U64CD","U4F5C">>

Separator == <<" ","U00B7"," ">>

\* query[:60] + ('...' if len(query) > 60 else '') if query else fallback
ShortQuery(q, fallback) ==
  IF q # <<>> THEN Truncate(q, ShortCut) ELSE fallback

\* f"改{edit_count}文件"
EditPhrase(n) == <<"U6539">> \o IntText(n) \o <<"U6587","U4EF6">>

\* f"执行{bash_count}命令"
BashPhrase(n) == <<"U6267","U884C">> \o IntText(n) \o <<"U547D","U4EE4">>

\* f"读{read_count}文件"
ReadPhrase(n) == <<"U8BFB">> \o IntText(n) \o <<"U6587","U4EF6">>

\* f'耗时{duration}'
DurationPhrase(dur) == <<"U8017","U65F6">> \o dur

\* SuccessStats with the Write records left out of the edit count
SuccessStatsEditOnly(tools, dur) ==
  LET edit_count == CountOf(tools, JStr(T_Edit))
      bash_count == CountOf(tools, JStr(T_Bash))
      read_count == CountOf(tools, JStr(T_Read))
      stats_parts ==
        (IF edit_count > 0 THEN <<EditPhrase(edit_count)>> ELSE <<>>)
        \o (IF bash_count > 0 THEN <<BashPhrase(bash_count)>> ELSE <<>>)
        \o (IF read_count > 0 THEN <<ReadPhrase(read_count)>> ELSE <<>>)
        \o (IF dur # <<>> THEN <<DurationPhrase(dur)>> ELSE <<>>)
  IN  Join(stats_parts, Separator)

\* lines 338 to 359
SuccessStats(tools, dur) ==
  LET edit_count == CountOf(tools, JStr(T_Edit)) + CountOf(tools, JStr(T_Write))
      bash_count == CountOf(tools, JStr(T_Bash))
      read_count == CountOf(tools, JStr(T_Read))
      stats_parts ==
        (IF edit_count > 0 THEN <<EditPhrase(edit_count)>> ELSE <<>>)
        \o (IF bash_count > 0 THEN <<BashPhrase(bash_count)>> ELSE <<>>)
        \o (IF read_count > 0 THEN <<ReadPhrase(read_count)>> ELSE <<>>)
        \o (IF dur # <<>> THEN <<DurationPhrase(dur)>> ELSE <<>>)
  IN  Join(stats_parts, Separator)

\* str of a status
StatusText(status) ==
  CASE status = "success" -> <<"s","u","c","c","e","s","s">>
    [] status = "error"   -> <<"e","r","r","o","r">>
    [] status = "action_needed" ->
         <<"a","c","t","i","o","n","_","n","e","e","d","e","d">>

\* print(f"{status}|{query}|{stats}"): the text and the newline print adds
OutputLine(status, q, stats) ==
  StatusText(status) \o <<"|">> \o q \o <<"|">> \o stats \o <<NL>>

\* print('success|任务完成|')
FallbackLine == OutputLine("success", TaskDone, EmptyText)

(***************************************************************************)
(* The program: main, generate_summary and the loop of parse_transcript    *)
(***************************************************************************)
NoData == [k |-> "none"]

\* return {'error': str(e)}
ReadFailure == [k |-> "error"]

NoResult == [k |-> "none"]

\* the value of transcript_path after lines 373 to 382
PathOf(inv) ==
  IF inv.mode = "argv" THEN JStr(inv.arg)
  ELSE IF inv.payload.k = "json" /\ inv.payload.v.k = "dict"
       THEN GetOr(inv.payload.v, K_transcript_path, JStr(EmptyText))
       ELSE JStr(EmptyText)

\* lines 373 to 382: the path from the argument, or from the payload on
\* stdin, '' when json.loads or hook_input.get raises
ReadArgs ==
  /\ pc = "main"
  /\ transcript_path' = PathOf(invocation)
  /\ pc' = "path"
  /\ UNCHANGED <<invocation, fsys, lines, pos, messages, tools_used,
                 files_modified, bash_commands, data, query, result, stdout,
                 exc, duration>>

\* line 384 is false: the path is falsy, or no file is there
NoTranscript ==
  ~Truthy(transcript_path) \/ (transcript_path.k = "str" /\ fsys = "missing")

\* lines 388 and 389
MainFallback ==
  /\ pc = "path"
  /\ NoTranscript
  /\ stdout' = stdout \o FallbackLine
  /\ pc' = "done"
  /\ UNCHANGED <<invocation, fsys, lines, transcript_path, pos, messages,
                 tools_used, files_modified, bash_commands, data, query,
                 result, exc, duration>>

\* line 384: Path() of a truthy value that is no str raises TypeError
MainRaises ==
  /\ pc = "path"
  /\ Truthy(transcript_path)
  /\ transcript_path.k # "str"
  /\ exc' = "TypeError"
  /\ pc' = "crashed"
  /\ UNCHANGED <<invocation, fsys, lines, transcript_path, pos, messages,
                 tools_used, files_modified, bash_commands, data, query,
                 result, stdout, duration>>

\* lines 384 and 385: the path exists and generate_summary is called
CallGenerate ==
  /\ pc = "path"
  /\ Truthy(transcript_path)
  /\ transcript_path.k = "str"
  /\ fsys # "missing"
  /\ pc' = "open"
  /\ UNCHANGED <<invocation, fsys, lines, transcript_path, pos, messages,
                 tools_used, files_modified, bash_commands, data, query,
                 result, stdout, exc, duration>>

\* line 135 raises (a directory, no permission), caught at line 166
OpenFails ==
  /\ pc = "open"
  /\ fsys = "unreadable"
  /\ data' = ReadFailure
  /\ pc' = "summary"
  /\ UNCHANGED <<invocation, fsys, lines, transcript_path, pos, messages,
                 tools_used, files_modified, bash_commands, query, result,
                 stdout, exc, duration>>

\* line 135 opens the file
OpenFile ==
  /\ pc = "open"
  /\ fsys = "file"
  /\ pc' = "read"
  /\ UNCHANGED <<invocation, fsys, lines, transcript_path, pos, messages,
                 tools_used, files_modified, bash_commands, data, query,
                 result, stdout, exc, duration>>

\* the line the loop of line 136 reads next
NextLine == lines[pos + 1]

\* lines 137 to 139 and 164: a blank line and a line json.loads rejects
\* are passed over
ReadSkip ==
  /\ pc = "read"
  /\ pos < Len(lines)
  /\ NextLine.k \in {"blank", "badjson"}
  /\ pos' = pos + 1
  /\ UNCHANGED <<invocation, fsys, lines, pc, transcript_path, messages,
                 tools_used, files_modified, bash_commands, data, query,
                 result, stdout, exc, duration>>

\* the reading of the line, or lines 141 to 162 on it, raise
LineRaises(line) ==
  IF line.k = "json" THEN RecordRaises(line.v) ELSE line.k = "badutf8"

\* lines 141 to 162 on a decoded mapping
ReadRecord ==
  /\ pc = "read"
  /\ pos < Len(lines)
  /\ NextLine.k = "json"
  /\ ~LineRaises(NextLine)
  /\ LET msg == NextLine.v
         tool == IsStr(MsgType(msg), T_tool_use)
     IN  /\ messages' = Append(messages, msg)
         /\ tools_used' = IF tool THEN Increment(tools_used, ToolName(msg))
                          ELSE tools_used
         /\ files_modified' =
              IF tool /\ NamesModifiedFile(msg)
              THEN files_modified \cup {PathName(FilePath(ToolInput(msg)).s)}
              ELSE files_modified
         /\ bash_commands' =
              IF tool /\ NamesCommand(msg)
              THEN Append(bash_commands,
                          CutCommand(Get(ToolInput(msg), K_command)))
              ELSE bash_commands
  /\ pos' = pos + 1
  /\ UNCHANGED <<invocation, fsys, lines, pc, transcript_path, data, query,
                 result, stdout, exc, duration>>

\* lines 166 and 167: an exception other than JSONDecodeError ends the
\* reading and parse_transcript returns {'error': ...}
ReadRaises ==
  /\ pc = "read"
  /\ pos < Len(lines)
  /\ LineRaises(NextLine)
  /\ data' = ReadFailure
  /\ pc' = "summary"
  /\ UNCHANGED <<invocation, fsys, lines, transcript_path, pos, messages,
                 tools_used, files_modified, bash_commands, query, result,
                 stdout, exc, duration>>

\* list(files_modified)[:5]: a set is listed in an order the build picks
ExposedFiles(files) ==
  LET n == Min(FilesCap, Cardinality(files))
  IN  {list \in [1..n -> files] :
         \A i, j \in 1..n : list[i] = list[j] => i = j}

\* lines 169 to 176
ParseReturns ==
  /\ pc = "read"
  /\ pos = Len(lines)
  /\ ~detect_status(messages).exc
  /\ \E list \in ExposedFiles(files_modified) :
       data' = [k |-> "data",
                messages |-> messages,
                tools_used |-> tools_used,
                files_modified |-> list,
                bash_commands |-> Take(bash_commands, CommandsCap),
                total_messages |-> Len(messages),
                status |-> detect_status(messages).val]
  /\ pc' = "summary"
  /\ UNCHANGED <<invocation, fsys, lines, transcript_path, pos, messages,
                 tools_used, files_modified, bash_commands, query, result,
                 stdout, exc, duration>>

\* line 175 is outside the try of line 134: what detect_status raises
\* leaves parse_transcript, generate_summary and main
ParseRaises ==
  /\ pc = "read"
  /\ pos = Len(lines)
  /\ detect_status(messages).exc
  /\ exc' = "TypeError"
  /\ pc' = "crashed"
  /\ UNCHANGED <<invocation, fsys, lines, transcript_path, pos, messages,
                 tools_used, files_modified, bash_commands, data, query,
                 result, stdout, duration>>

\* lines 309 and 310
SummaryFallback ==
  /\ pc = "summary"
  /\ data.k = "error"
  /\ result' = [status |-> "success", summary |-> TaskDone]
  /\ pc' = "print"
  /\ UNCHANGED <<invocation, fsys, lines, transcript_path, pos, messages,
                 tools_used, files_modified, bash_commands, data, query,
                 stdout, exc, duration>>

\* line 317 or line 321 raises
SummaryCallRaises(d) ==
  \/ extract_user_query(d.messages).exc
  \/ d.status = "error" /\ get_error_message(d.messages).exc

SummaryRaises ==
  /\ pc = "summary"
  /\ data.k = "data"
  /\ SummaryCallRaises(data)
  /\ exc' = "TypeError"
  /\ pc' = "crashed"
  /\ UNCHANGED <<invocation, fsys, lines, transcript_path, pos, messages,
                 tools_used, files_modified, bash_commands, data, query,
                 result, stdout, duration>>

\* lines 320 to 327
SummaryError ==
  /\ pc = "summary"
  /\ data.k = "data"
  /\ ~SummaryCallRaises(data)
  /\ data.status = "error"
  /\ query' = extract_user_query(data.messages).val
  /\ result' = [status |-> "error",
                query |-> ShortQuery(query', TaskFailed),
                stats |-> get_error_message(data.messages).val]
  /\ pc' = "print"
  /\ UNCHANGED <<invocation, fsys, lines, transcript_path, pos, messages,
                 tools_used, files_modified, bash_commands, data, stdout,
                 exc, duration>>

\* lines 329 to 335
SummaryAction ==
  /\ pc = "summary"
  /\ data.k = "data"
  /\ ~SummaryCallRaises(data)
  /\ data.status = "action_needed"
  /\ query' = extract_user_query(data.messages).val
  /\ result' = [status |-> "action_needed",
                query |-> ShortQuery(query', NeedsUser),
                stats |-> EmptyText]
  /\ pc' = "print"
  /\ UNCHANGED <<invocation, fsys, lines, transcript_path, pos, messages,
                 tools_used, files_modified, bash_commands, data, stdout,
                 exc, duration>>

\* lines 337 to 368
SummarySuccess ==
  /\ pc = "summary"
  /\ data.k = "data"
  /\ ~SummaryCallRaises(data)
  /\ data.status = "success"
  /\ query' = extract_user_query(data.messages).val
  /\ duration' = calculate_duration(data.messages)
  /\ result' = [status |-> "success",
                query |-> ShortQuery(query', TaskDone),
                stats |-> SuccessStats(data.tools_used, duration')]
  /\ pc' = "print"
  /\ UNCHANGED <<invocation, fsys, lines, transcript_path, pos, messages,
                 tools_used, files_modified, bash_commands, data, stdout,
                 exc>>

\* line 387 on a result that has the keys it reads
PrintLine ==
  /\ pc = "print"
  /\ "query" \in DOMAIN result
  /\ stdout' = stdout \o OutputLine(result.status, result.query, result.stats)
  /\ pc' = "done"
  /\ UNCHANGED <<invocation, fsys, lines, transcript_path, pos, messages,
                 tools_used, files_modified, bash_commands, data, query,
                 result, exc, duration>>

\* line 387 on the result of line 310, which has no key 'query': KeyError
PrintRaises ==
  /\ pc = "print"
  /\ "query" \notin DOMAIN result
  /\ exc' = "KeyError"
  /\ pc' = "crashed"
  /\ UNCHANGED <<invocation, fsys, lines, transcript_path, pos, messages,
                 tools_used, files_modified, bash_commands, data, query,
                 result, stdout, duration>>

Next ==
  \/ ReadArgs
  \/ MainFallback
  \/ MainRaises
  \/ CallGenerate
  \/ OpenFails
  \/ OpenFile
  \/ ReadSkip
  \/ ReadRecord
  \/ ReadRaises
  \/ ParseReturns
  \/ ParseRaises
  \/ SummaryFallback
  \/ SummaryRaises
  \/ SummaryError
  \/ SummaryAction
  \/ SummarySuccess
  \/ PrintLine
  \/ PrintRaises

(***************************************************************************)
(* Inputs: records of a transcript, as the session that writes it does     *)
(***************************************************************************)
X_fix ==
  <<"f","i","x"," ","t","h","e"," ","l","o","g","i","n"," ","b","u","g">>

X_dark == <<"a","d","d"," ","a"," ","d","a","r","k"," ","m","o","d","e">>

X_continue == <<"c","o","n","t","i","n","u","e">>

X_multi ==
  <<"f","i","x",NL,"t","h","e"," ","l","o","g","i","n"," ","b","u","g">>

X_abcd == <<"a","b","c","d">>

X_why ==
  <<"w","h","y"," ","h","a","s"," ","t","h","e"," ","b","u","i","l","d"," ",
    "f","a","i","l","e","d">>

X_api ==
  <<"A","P","I"," ","E","r","r","o","r",":"," ","4","0","3"," ","F","o","r",
    "b","i","d","d","e","n">>

X_please ==
  <<"p","l","e","a","s","e"," ","r","u","n"," ","n","p","m"," ","i","n","s",
    "t","a","l","l"," ","t","o"," ","c","o","n","t","i","n","u","e">>

X_done == <<"A","l","l"," ","d","o","n","e",".">>

X_both ==
  <<"B","u","i","l","d"," ","f","a","i","l","e","d",","," ","p","l","e","a",
    "s","e"," ","r","u","n"," ","m","a","k","e">>

X_timeout ==
  <<"c","o","n","n","e","c","t","i","o","n"," ","t","i","m","e","o","u","t">>

X_overloaded == <<"o","v","e","r","l","o","a","d","e","d">>

X_path == <<"/","a","/","b",".","p","y">>

X_tpath == <<"/","t","m","p","/","t",".","j","s","o","n","l">>

X_cmd == <<"n","p","m"," ","t","e","s","t">>

X_confirm == <<"U9700","U8981","U4F60","U7684","U786E","U8BA4">>

X_ok == <<"O","K">>

T_image == <<"i","m","a","g","e">>

T_system == <<"s","y","s","t","e","m">>

\* a record of the given type with further <<key, value>> pairs
Rec(type, pairs) == JDict(<< <<K_type, JStr(type)>> >> \o pairs)

\* the pair "message": {"content": content}
Nested(content) == <<K_message, JDict(<< <<K_content, content>> >>)>>

\* the pair "content": content of the legacy format
Legacy(content) == <<K_content, content>>

\* a content block {"type": "text", "text": v}
TextBlock(v) == JDict(<< <<K_type, JStr(T_text)>>, <<K_text, v>> >>)

ImageBlock == JDict(<< <<K_type, JStr(T_image)>> >>)

UserMsg(text) == Rec(T_user, << Nested(JStr(text)) >>)

LegacyUserMsg(text) == Rec(T_user, << Legacy(JStr(text)) >>)

AssistantMsg(text) == Rec(T_assistant, << Nested(JStr(text)) >>)

\* an assistant record whose content is a list of blocks
AssistantBlocks(blocks) == Rec(T_assistant, << Nested(JList(blocks)) >>)

\* the record of an API error: the flag, and no text
ApiErrorMsg ==
  Rec(T_assistant, << <<K_isApiErrorMessage, JBool(TRUE)>> >>)

\* a record with a non-empty error field
ErrorFieldMsg == Rec(T_system, << <<K_error, JStr(X_overloaded)>> >>)

ToolResult(output) == Rec(T_tool_result, << <<K_tool_output, JStr(output)>> >>)

\* a user record whose one text block holds a number where a str belongs
BadBlockUser == Rec(T_user, << Nested(JList(<<TextBlock(JNum(5))>>)) >>)

\* a user record that holds an image and no text
ImageUser == Rec(T_user, << Nested(JList(<<ImageBlock>>)) >>)

ToolUse(name, input) ==
  Rec(T_tool_use, << <<K_tool_name, JStr(name)>>, <<K_tool_input, input>> >>)

EditOf(file) == ToolUse(T_Edit, JDict(<< <<K_file_path, JStr(file)>> >>))

BashOf(cmd) == ToolUse(T_Bash, JDict(<< <<K_command, JStr(cmd)>> >>))

\* the lines of a file that holds the given decoded values
LinesOf(values) == [i \in 1..Len(values) |-> Decoded(values[i])]

\* every sequence over S of length at most n
SeqsUpTo(S, n) == UNION {[1..m -> S] : m \in 0..n}

ByArgument == [mode |-> "argv", arg |-> X_tpath]

ByStdin(payload) == [mode |-> "stdin", payload |-> payload]

\* a run on a transcript file that opens, its path given as argument
RunOn(file) == [invocation |-> ByArgument, fsys |-> "file", lines |-> file]

NoFile(inv) == [invocation |-> inv, fsys |-> "missing", lines |-> <<>>]

PathPayload(v) == Decoded(JDict(<< <<K_transcript_path, v>> >>))

\* the ways of main and of the reader, each on a short input
BaseRuns ==
  { NoFile(ByArgument),
    NoFile([mode |-> "argv", arg |-> EmptyText]),
    NoFile(ByStdin(BadJson)),
    NoFile(ByStdin(Decoded(JList(<<>>)))),
    NoFile(ByStdin(Decoded(JDict(<<>>)))),
    NoFile(ByStdin(PathPayload(JNull))),
    NoFile(ByStdin(PathPayload(JNum(5)))),
    NoFile(ByStdin(PathPayload(JStr(X_tpath)))),
    [invocation |-> ByArgument, fsys |-> "unreadable", lines |-> <<>>],
    [invocation |-> ByStdin(PathPayload(JStr(X_tpath))), fsys |-> "file",
     lines |-> LinesOf(<<UserMsg(X_fix), AssistantMsg(X_done)>>)],
    RunOn(<<>>),
    RunOn(<<BlankLine, BadJson>>),
    RunOn(<<BadUtf8>>),
    RunOn(<<Decoded(UserMsg(X_fix)), Decoded(JList(<<JNum(1)>>))>>),
    RunOn(<<BlankLine, Decoded(UserMsg(X_fix)), BadJson,
            Decoded(AssistantMsg(X_api))>>),
    RunOn(LinesOf(<<UserMsg(X_fix), AssistantMsg(X_please)>>)),
    RunOn(LinesOf(<<UserMsg(X_fix), EditOf(X_path), BashOf(X_cmd),
                    AssistantMsg(X_done)>>)),
    RunOn(LinesOf(<<UserMsg(X_multi), AssistantMsg(X_done)>>)),
    RunOn(LinesOf(<<BadBlockUser>>)),
    RunOn(LinesOf(<<BadBlockUser, UserMsg(X_abcd)>>)) }

\* the state before main runs on the inputs of one run
InitOf(runs) ==
  /\ \E run \in runs :
       /\ invocation = run.invocation
       /\ fsys = run.fsys
       /\ lines = run.lines
  /\ pc = "main"
  /\ transcript_path = JStr(EmptyText)
  /\ pos = 0
  /\ messages = <<>>
  /\ tools_used = <<>>
  /\ files_modified = {}
  /\ bash_commands = <<>>
  /\ data = NoData
  /\ query = EmptyText
  /\ duration = EmptyText
  /\ result = NoResult
  /\ stdout = EmptyText
  /\ exc = "none"

X_day == <<"2","0","2","4","-","0","1","-","1","5">>

X_yesterday == <<"y","e","s","t","e","r","d","a","y">>

X_testsfailed ==
  <<"3"," ","t","e","s","t","s"," ","f","a","i","l","e","d"," ","i","n"," ",
    "s","u","i","t","e">>

X_multierr ==
  <<"R","u","n"," ","e","n","d","e","d",".",NL,"E","r","r","o","r",":"," ",
    "e","x","i","t"," ","c","o","d","e"," ","1",NL,"S","e","e"," ","t","h",
    "e"," ","l","o","g">>

X_thanks == <<" ","T","h","a","n","k","s"," ",NL>>

X_spaces == <<" "," "," "," "," "," ">>

X_padded ==
  <<" "," ","r","e","f","a","c","t","o","r"," ","t","h","e"," ","p","a","r",
    "s","e","r","\t">>

X_dir == <<"s","r","c","/","l","i","b","/">>

X_rel == <<"n","o","t","e","s",".","m","d">>

T_Grep == <<"G","r","e","p">>

\* the text of n characters c
Rep(c, n) == [i \in 1..n |-> c]

\* the record with a timestamp field added
Stamped(rec, ts) == JDict(rec.f \o << <<K_timestamp, ts>> >>)

\* "hh:mm:ss" of the n-th second of a day
ClockText(n) ==
  LET two(v) == <<DigitChars[(v \div 10) + 1], DigitChars[(v % 10) + 1]>>
  IN  two(n \div 3600) \o <<":">> \o two((n % 3600) \div 60) \o <<":">>
      \o two(n % 60)

\* the timestamp text of second n of the day, with a fraction and a zone
StampText(n, fraction, zone) ==
  X_day \o <<"T">> \o ClockText(n) \o fraction \o zone

(***************************************************************************)
(* The transcripts of each specification                                   *)
(***************************************************************************)
\* the records of the transcripts on which the classifier is checked
StatusPool ==
  { UserMsg(X_fix), LegacyUserMsg(X_dark), UserMsg(X_why), BadBlockUser,
    AssistantMsg(X_api), AssistantMsg(X_please), AssistantMsg(X_done),
    AssistantMsg(X_both), ApiErrorMsg, ErrorFieldMsg, ToolResult(X_timeout) }

\* further records, tried alone and after each record of the pool
StatusExtras ==
  { UserMsg(X_ok), ImageUser,
    AssistantBlocks(<<TextBlock(JStr(X_confirm))>>),
    AssistantBlocks(<<TextBlock(JStr(X_done)), ImageBlock,
                      TextBlock(JStr(X_please))>>),
    Rec(T_assistant, << Legacy(JStr(X_api)) >>),
    Rec(T_tool_result, << Legacy(JList(<<TextBlock(JStr(X_timeout))>>)) >>),
    Rec(T_tool_result, << Legacy(JNull) >>),
    Rec(T_user, << <<K_message, JStr(X_fix)>>, Legacy(JStr(X_please)) >>),
    Rec(T_system, << Nested(JStr(X_api)) >>),
    Rec(T_assistant, << <<K_isApiErrorMessage, JBool(FALSE)>>,
                        <<K_error, JStr(EmptyText)>>,
                        Nested(JStr(X_done)) >>) }

MaxStatusLines == 3

StatusRuns ==
  {RunOn(LinesOf(file)) : file \in SeqsUpTo(StatusPool, MaxStatusLines)}
  \cup {RunOn(LinesOf(<<a, b>>)) : a \in StatusPool, b \in StatusExtras}
  \cup {RunOn(LinesOf(<<b, a>>)) : a \in StatusPool, b \in StatusExtras}

\* the records of the transcripts on which the query is checked
QueryPool ==
  { UserMsg(X_fix), LegacyUserMsg(X_dark), UserMsg(X_continue),
    UserMsg(X_thanks), UserMsg(X_multi), UserMsg(X_abcd), UserMsg(X_spaces),
    UserMsg(X_padded), BadBlockUser, ImageUser, AssistantMsg(X_dark),
    Rec(T_user, << Nested(JStr(X_ok)), Legacy(JStr(X_fix)) >>) }

MaxQueryLines == 2

\* how far past a cut the long texts reach
MaxOver == 2

\* the lengths about the two cuts
CutLengths ==
  ((ShortCut - 1)..(ShortCut + MaxOver)) \cup ((QueryCut - 1)..(QueryCut + MaxOver))

\* texts about as long as the cuts: one word, one padded with blanks, one
\* with a blank where the cut falls, one after a short first line
LongTexts ==
  {Rep("x", n) : n \in CutLengths}
  \cup {<<" ">> \o Rep("x", n) \o <<" ", NL>> : n \in CutLengths}
  \cup {Rep("x", QueryCut - 1) \o <<" ">> \o Rep("y", n) : n \in 0..MaxOver}
  \cup {<<"f","i","x",NL>> \o Rep("x", n) : n \in CutLengths}

QueryRuns ==
  {RunOn(LinesOf(file)) : file \in SeqsUpTo(QueryPool, MaxQueryLines)}
  \cup {RunOn(LinesOf(<<UserMsg(X_fix), UserMsg(text), AssistantMsg(X_done)>>)) :
          text \in LongTexts}

\* the records of the transcripts on which the error text is checked
ErrorPool ==
  { AssistantMsg(X_api), AssistantMsg(X_timeout), AssistantMsg(X_multierr),
    AssistantMsg(Rep("x", ErrorCut) \o X_testsfailed \o Rep("y", ErrorCut)),
    ApiErrorMsg, ToolResult(X_testsfailed), UserMsg(X_why),
    Rec(T_assistant, << Nested(JList(<<TextBlock(JBool(TRUE))>>)) >>) }

\* a record that decides nothing and holds no text
Filler == ToolUse(T_Read, JDict(<< <<K_file_path, JStr(X_path)>> >>))

\* how many filler records follow the records of the pool
MaxPad == 10

ErrorRuns ==
  {RunOn(LinesOf(<<UserMsg(X_fix), a, b>> \o Rep(Filler, n))) :
     a \in ErrorPool, b \in ErrorPool \cup {Filler}, n \in 0..MaxPad}

\* the timestamps of the transcripts on which the duration is checked:
\* seconds of the day about the limits, with fractions and zones
StampPool ==
  {JStr(StampText(36000 + n, <<>>, <<"Z">>)) :
     n \in {0, 4, 5, 59, 60, 61, 3599, 3600, 3601} }
  \cup { JStr(StampText(36000, <<".","5","0","0">>, <<"Z">>)),
         JStr(StampText(36004, <<".","5","0","0","0","0","0">>, <<"Z">>)),
         JStr(StampText(36005, <<>>, <<"+","0","0",":","0","0">>)),
         JStr(StampText(39605, <<>>, <<"+","0","1",":","0","0">>)),
         JStr(StampText(36010, <<>>, <<>>)),
         JStr(StampText(36020, <<".","2","5","0">>, <<>>)),
         JStr(X_day),
         JStr(X_yesterday),
         JStr(EmptyText),
         JNum(1705312800) }

DurationRuns ==
  {RunOn(LinesOf(<<Stamped(UserMsg(X_fix), a),
                   Stamped(AssistantMsg(X_done), b)>>)) :
     a \in StampPool, b \in StampPool}
  \cup {RunOn(LinesOf(<<Stamped(UserMsg(X_fix), a), UserMsg(X_dark),
                        Stamped(AssistantMsg(X_done), b)>>)) :
          a \in StampPool, b \in StampPool}
  \cup {RunOn(LinesOf(<<Stamped(UserMsg(X_fix), a), AssistantMsg(X_done),
                        Stamped(UserMsg(X_continue), b),
                        Stamped(AssistantMsg(X_done), a)>>)) :
          a \in StampPool, b \in StampPool}
  \cup {RunOn(LinesOf(<<Stamped(AssistantMsg(X_done), a),
                        Stamped(AssistantMsg(X_done), b)>>)) :
          a \in StampPool, b \in StampPool}
  \cup {RunOn(LinesOf(<<Stamped(UserMsg(X_fix), a)>>)) : a \in StampPool}
  \cup {RunOn(LinesOf(<<Stamped(UserMsg(X_fix), a), AssistantMsg(X_done)>>)) :
          a \in StampPool}

\* the tool records of the transcripts on which the aggregates are checked
ToolPool ==
  { EditOf(X_path),
    ToolUse(T_Write, JDict(<< <<K_path, JStr(X_rel)>> >>)),
    ToolUse(T_Edit, JDict(<< <<K_file_path, JStr(EmptyText)>>,
                             <<K_path, JStr(X_dir)>> >>)),
    ToolUse(T_Read, JDict(<< <<K_file_path, JStr(X_rel)>> >>)),
    BashOf(X_cmd),
    BashOf(EmptyText),
    BashOf(Rep("a", CommandCut) \o X_cmd),
    ToolUse(T_Bash, JDict(<< <<K_command, JList(<<JStr(X_cmd)>>)>> >>)),
    ToolUse(T_Bash, JDict(<< <<K_command, JNum(7)>> >>)),
    ToolUse(T_Edit, JDict(<< <<K_file_path, JNum(7)>> >>)),
    ToolUse(T_Grep, JNull),
    Rec(T_tool_use, <<>>),
    Rec(T_tool_use, << <<K_tool_name, JList(<<>>)>> >>),
    UserMsg(X_fix) }

MaxToolLines == 2

\* a file name and a command for each number
NumberedFile(n) == <<"/","s","r","c","/","f">> \o NatText(n) \o <<".","p","y">>

NumberedCommand(n) == <<"m","a","k","e"," ","t">> \o NatText(n)

\* how many Edit records of different files a transcript holds
MaxFiles == 6

\* how many Bash records a transcript holds
MaxCommands == 4

ToolRuns ==
  {RunOn(LinesOf(file)) : file \in SeqsUpTo(ToolPool, MaxToolLines)}
  \cup {RunOn(LinesOf([i \in 1..n |-> EditOf(NumberedFile(i))]
                      \o [i \in 1..m |-> BashOf(NumberedCommand(i))])) :
          n \in 0..MaxFiles, m \in 0..MaxCommands}
  \cup {RunOn(<<BlankLine, Decoded(EditOf(X_path)), BadJson,
                Decoded(BashOf(X_cmd)), BlankLine, Decoded(EditOf(X_rel))>>)}

\* the transcripts on which the summary of a success is checked: a user
\* record, some tool records, the last assistant record
SummaryTexts ==
  {X_fix, X_continue} \cup {Rep("x", n) : n \in (ShortCut - 1)..(ShortCut + MaxOver)}

SummaryTools ==
  { EditOf(X_path), ToolUse(T_Write, JDict(<< <<K_path, JStr(X_rel)>> >>)),
    BashOf(X_cmd), ToolUse(T_Read, JDict(<< <<K_file_path, JStr(X_rel)>> >>)),
    ToolUse(T_Grep, JDict(<<>>)) }

MaxSummaryTools == 2

\* the two timestamps of a transcript: none, or some seconds apart
SummaryStamps ==
  { <<JStr(EmptyText), JStr(EmptyText)>> }
  \cup { <<JStr(StampText(36000, <<>>, <<"Z">>)),
           JStr(StampText(36000 + n, <<>>, <<"Z">>))>> : n \in {3, 10, 75} }

SummaryRuns ==
  {RunOn(LinesOf(<<Stamped(UserMsg(text), stamps[1])>> \o tools
                 \o <<Stamped(AssistantMsg(X_done), stamps[2])>>)) :
     text \in SummaryTexts, tools \in SeqsUpTo(SummaryTools, MaxSummaryTools),
     stamps \in SummaryStamps}
  \cup {RunOn(LinesOf(tools)) : tools \in SeqsUpTo(SummaryTools, MaxSummaryTools)}

(***************************************************************************)
(* The specifications                                                      *)
(***************************************************************************)
Init == InitOf(BaseRuns)

Spec == Init /\ [][Next]_vars

InitStatus == InitOf(BaseRuns \cup StatusRuns)

SpecStatus == InitStatus /\ [][Next]_vars

InitQuery == InitOf(BaseRuns \cup QueryRuns)

SpecQuery == InitQuery /\ [][Next]_vars

InitError == InitOf(BaseRuns \cup ErrorRuns)

SpecError == InitError /\ [][Next]_vars

InitDuration == InitOf(BaseRuns \cup DurationRuns)

SpecDuration == InitDuration /\ [][Next]_vars

InitTools == InitOf(BaseRuns \cup ToolRuns)

SpecTools == InitTools /\ [][Next]_vars

InitSummary == InitOf(BaseRuns \cup SummaryRuns)

SpecSummary == InitSummary /\ [][Next]_vars

(***************************************************************************)
(* Properties.  They are stated on what the program has stored when it     *)
(* prints: the records parse_transcript returned and the fields the        *)
(* functions computed from them.                                           *)
(***************************************************************************)
\* parse_transcript has returned its data
Returned == data.k = "data"

\* the records parse_transcript returned
Records == data.messages

Positions == 1..Len(Records)

\* generate_summary has returned a summary of the returned data
Summarised == pc \in {"print", "done"} /\ "query" \in DOMAIN result

\* the greatest element of a non-empty set of integers
Greatest(S) == CHOOSE i \in S : \A j \in S : j <= i

\* the value of a call, '' where the call raises
ValueOr(r) == IF r.exc THEN EmptyText ELSE r.val

IsUser(msg) == IsStr(Get(msg, K_type), T_user)

IsToolUse(msg) == IsStr(MsgType(msg), T_tool_use)

\* the positions from start_idx of line 82 to the last record
Scanned ==
  StartIdx(LastMeaningfulUser(Records, Len(Records)).val)..Len(Records)

\* the record carries the flag of line 86 or the field of line 90
Flagged(msg) ==
  Truthy(Get(msg, K_isApiErrorMessage)) \/ Truthy(Get(msg, K_error))

ErrorWords(msg) == MatchesAny(ERROR_PATTERNS, ValueOr(ScanText(msg)))

ActionWords(msg) == MatchesAny(ACTION_PATTERNS, ValueOr(ScanText(msg)))

Decides(msg) == Flagged(msg) \/ ErrorWords(msg) \/ ActionWords(msg)

\* what a deciding record decides
Decision(msg) ==
  IF Flagged(msg) \/ ErrorWords(msg) THEN "error" ELSE "action_needed"

\* s is one line: it ends with its only newline
OneLine(s) == s # <<>> /\ {i \in 1..Len(s) : s[i] = NL} = {Len(s)}

\* C1 as stated: no exception leaves main, a run that ends has printed
\* exactly one line, and after a failure of the reader that line is the
\* fallback line success|TaskDone|
AlwaysOneLine ==
  /\ exc = "none"
  /\ pc = "done" => OneLine(stdout)
  /\ (pc = "done" /\ data = ReadFailure) => stdout = FallbackLine

\* C2 as stated: a flagged record among the scanned records makes the
\* status error, whatever comes after it
FlagMeansError ==
  Returned =>
    ((\E i \in Scanned : Flagged(Records[i])) => data.status = "error")

\* C2: with a flagged record among the scanned records the status is never
\* success; it is action_needed only when a record after the flagged one,
\* itself not flagged, has text that matches an action pattern and no error
\* pattern, and error when no later record has text matching an action
\* pattern
FlagOverriddenOnlyByLaterAction ==
  Returned =>
    \A i \in Scanned :
      Flagged(Records[i]) =>
        /\ data.status \in {"error", "action_needed"}
        /\ data.status = "action_needed" =>
             \E j \in Scanned :
               /\ j > i
               /\ ~Flagged(Records[j])
               /\ ActionWords(Records[j])
               /\ ~ErrorWords(Records[j])
        /\ (\A j \in Scanned : j > i => ~ActionWords(Records[j])) =>
             data.status = "error"

\* a flagged record is followed by a request to the user, and the status is
\* action_needed
FlagThenActionRequest ==
  /\ Returned
  /\ data.status = "action_needed"
  /\ \E i \in Scanned : Flagged(Records[i])

\* C3 as stated: the stats of an error summary are never empty
ErrorStatsNeverEmpty ==
  (Summarised /\ result.status = "error") => result.stats # <<>>

\* the text get_error_message tests for the record at position i
CaptureText(i) == ValueOr(ErrorText(Records[i]))

\* the positions of the last ErrorWindow records
RecentPositions == {i \in Positions : i > Len(Records) - ErrorWindow}

\* the recent records whose text holds a match of the capturing expression
CaptureHits == {i \in RecentPositions : CaptureStarts(CaptureText(i)) # {}}

\* C3: the stats of an error summary are the text captured from the most
\* recent of the last ErrorWindow records that is an assistant or
\* tool_result record with a match of API Error, Error:, 403 or failed: the
\* match to the end of its line, at most ErrorCut characters; and they are
\* empty when no such record is there
ErrorStatsIsLastCapture ==
  (Summarised /\ result.status = "error") =>
    IF CaptureHits = {} THEN result.stats = <<>>
    ELSE /\ result.stats =
              Take(CaptureGroup(CaptureText(Greatest(CaptureHits))), ErrorCut)
         /\ Len(result.stats) \in 1..ErrorCut

\* an error summary is printed with empty stats, an older record than the
\* last ErrorWindow holding a match
ErrorWithoutStats ==
  /\ pc = "done"
  /\ Summarised
  /\ result.status = "error"
  /\ result.stats = <<>>
  /\ \E i \in Positions \ RecentPositions : CaptureStarts(CaptureText(i)) # {}

\* s neither starts nor ends with whitespace
Trimmed(s) == s[1] \notin Whitespace /\ s[Len(s)] \notin Whitespace

\* C4 as stated: a non-empty query has at most QueryCut characters and is
\* trimmed
QueryWithinCut ==
  (Summarised /\ query # <<>>) => Len(query) <= QueryCut /\ Trimmed(query)

\* C4: a non-empty query is trimmed and has at most QueryCut characters and
\* the three of the ellipsis; one longer than QueryCut is QueryCut
\* characters and the ellipsis
QueryWithinCutAndEllipsis ==
  (Summarised /\ query # <<>>) =>
    /\ Trimmed(query)
    /\ Len(query) <= QueryCut + Len(Ellipsis)
    /\ Len(query) > QueryCut =>
         /\ Len(query) = QueryCut + Len(Ellipsis)
         /\ LastN(query, Len(Ellipsis)) = Ellipsis

\* a query of QueryCut characters and the ellipsis has been extracted
QueryCutWithEllipsis ==
  /\ Summarised
  /\ Len(query) = QueryCut + Len(Ellipsis)
  /\ LastN(query, Len(Ellipsis)) = Ellipsis

\* how many tool_use records name the tool
Uses(name) ==
  Cardinality({i \in Positions :
                 IsToolUse(Records[i]) /\ ToolName(Records[i]) = name})

Edits == Uses(JStr(T_Edit)) + Uses(JStr(T_Write))

Shells == Uses(JStr(T_Bash))

Reads == Uses(JStr(T_Read))

\* the stats of a success: the phrases of the counts above zero and of a
\* non-empty duration, in this order, joined by the separator
StatsOfCounts ==
  /\ result.stats =
       Join((IF Edits > 0 THEN <<EditPhrase(Edits)>> ELSE <<>>)
            \o (IF Shells > 0 THEN <<BashPhrase(Shells)>> ELSE <<>>)
            \o (IF Reads > 0 THEN <<ReadPhrase(Reads)>> ELSE <<>>)
            \o (IF duration # <<>> THEN <<DurationPhrase(duration)>>
                ELSE <<>>),
            Separator)
  /\ result.stats = <<>> <=>
       (Edits = 0 /\ Shells = 0 /\ Reads = 0 /\ duration = <<>>)

Stamp(i) == GetOr(Records[i], K_timestamp, JStr(EmptyText))

\* the timestamp is there and is read as an instant
Readable(ts) == ts.k = "str" /\ ts.s # <<>> /\ ParseTimestamp(ts.s).ok

\* C6: the duration is empty with fewer than 2 records, with no user
\* record, with a timestamp that is missing or not read, and when the whole
\* seconds elapsed from the last user record to the last record are
\* negative, fewer than MinDuration or more than MaxDuration; otherwise it
\* is m, U5206, s, U79D2 with m the seconds div 60 and s the seconds mod 60
\* when m > 0, and s, U79D2 when m = 0
DurationAsStated ==
  (Summarised /\ result.status = "success") =>
    LET u == LastUserIdx(Records)
        n == Len(Records)
    IN  IF n < 2 \/ u = 0 THEN duration = <<>>
        ELSE IF ~Readable(Stamp(u)) \/ ~Readable(Stamp(n))
             THEN duration = <<>>
        ELSE LET start == ParseTimestamp(Stamp(u).s)
                 end   == ParseTimestamp(Stamp(n).s)
                 elapsed == WholeSeconds(start, end)
             IN  IF start.aware # end.aware THEN duration = <<>>
                 ELSE IF elapsed < MinDuration \/ elapsed > MaxDuration
                      THEN duration = <<>>
                 ELSE IF elapsed \div 60 > 0
                      THEN duration = IntText(elapsed \div 60) \o <<"U5206">>
                                      \o IntText(elapsed % 60) \o <<"U79D2">>
                 ELSE duration = IntText(elapsed % 60) \o <<"U79D2">>

\* a duration of one minute and one second has been computed
MinuteAndSecond ==
  /\ Summarised
  /\ result.status = "success"
  /\ duration = <<"1", "U5206", "1", "U79D2">>

\* the text of a user record by the nested path, or else the legacy path
UserText(msg) == ValueOr(MessageText(msg))

\* the anchor as stated: the last user record whose text, by either path,
\* has a stripped length over 3; 0 when there is none
StatedAnchor ==
  LET meaningful == {i \in Positions :
                       /\ IsUser(Records[i])
                       /\ Len(Strip(UserText(Records[i]))) > 3}
  IN  IF meaningful = {} THEN 0 ELSE Greatest(meaningful)

\* C7 as stated: a flag, an error field or a pattern only before the
\* stated anchor never yields error or action_needed
OnlyFromAnchorOn ==
  Returned =>
    ((\A i \in Max(1, StatedAnchor)..Len(Records) : ~Decides(Records[i]))
       => data.status = "success")

\* the scanned records that decide
Deciders == {i \in Scanned : Decides(Records[i])}

Passing == {i \in Positions :
              IsUser(Records[i]) /\ PassesFilters(UserText(Records[i]))}

DecodedValues ==
  LET kept == SelectSeq(lines, LAMBDA line : line.k = "json")
  IN  [i \in 1..Len(kept) |-> kept[i].v]

\* the base names of the files the Edit and Write records name
ModifiedNames ==
  {PathName(FilePath(ToolInput(Records[i])).s) :
     i \in {j \in Positions :
              IsToolUse(Records[j]) /\ NamesModifiedFile(Records[j])}}

\* the names of the exposed files_modified list
Exposed == {data.files_modified[i] : i \in 1..Len(data.files_modified)}

\* the non-empty commands of the Bash records, in order
Commands ==
  LET named == SelectSeq(Records,
                         LAMBDA msg : IsToolUse(msg) /\ NamesCommand(msg))
  IN  [i \in 1..Len(named) |-> Get(ToolInput(named[i]), K_command)]

\* C10: the returned records are the decoded lines in file order; the
\* count of each tool is the number of tool_use records that name it; the
\* entries of the exposed file list are distinct base names of files that
\* Edit and Write records name, FilesCap of them or all when there are
\* fewer; the exposed
\* commands are the first CommandsCap non-empty Bash commands in order,
\* each cut to CommandCut characters
AggregatesExact ==
  Returned =>
    /\ Records = DecodedValues
    /\ data.total_messages = Len(DecodedValues)
    /\ \A i \in Positions :
         IsToolUse(Records[i]) =>
           CountOf(data.tools_used, ToolName(Records[i]))
             = Uses(ToolName(Records[i]))
    /\ \A n \in 1..Len(data.tools_used) :
         Uses(data.tools_used[n][1]) > 0
    /\ Len(data.files_modified) = Min(FilesCap, Cardinality(ModifiedNames))
    /\ Exposed \subseteq ModifiedNames
    /\ Cardinality(Exposed) = Len(data.files_modified)
    /\ Len(data.bash_commands) = Min(CommandsCap, Len(Commands))
    /\ \A i \in 1..Len(data.bash_commands) :
         /\ data.bash_commands[i].k = Commands[i].k
         /\ Commands[i].k = "str" =>
              data.bash_commands[i].s = Take(Commands[i].s, CommandCut)

\* more files and more commands than the caps expose, each counted
CapsReached ==
  /\ Returned
  /\ Cardinality(ModifiedNames) > FilesCap
  /\ Len(Commands) > CommandsCap
  /\ CountOf(data.tools_used, JStr(T_Edit)) > FilesCap
  /\ CountOf(data.tools_used, JStr(T_Bash)) > CommandsCap

====
